---- MODULE Spec2Model ----
(***************************************************************************)
(* The nbgrader exchange transfer pipeline: Exchange.start() and the       *)
(* fetch_assignment / submit subclasses, over an explicit filesystem.      *)
(*                                                                         *)
(* A filesystem is a function from absolute paths (sequences of names) to  *)
(* nodes.  A name is a record [stem, ext] so that glob patterns such as    *)
(* "*.ipynb" can be matched; a stem is a sequence of string parts so that  *)
(* formatted names ("{user}_info", "{user}+{assignment}+{timestamp}") keep *)
(* their components.  File data is a notebook document: a sequence of      *)
(* cells.                                                                  *)
(***************************************************************************)
EXTENDS Naturals, Sequences, FiniteSets, TLC

VARIABLES
    op,        \* the operation being run: "stamp", "fetch" or "submit"
    cfg,       \* the traits of the Exchange object and its coursedir
    fs,        \* the filesystem
    self,      \* attributes the run computes (src_path, dest_path, timestamp, ...)
    pc,        \* position of the run inside start() / copy_files()
    err,       \* the exception that ended the run, "none" otherwise
    failedAt,  \* the step that raised
    steps,     \* history: the steps entered so far, in order
    fs0,       \* history: the filesystem when the run began
    written,   \* history: the paths created or (re)written by the run
    log,       \* the log records emitted (warnings and errors)
    last,      \* history: the latest add_text_to_cell call of the stamping driver
    touched,   \* history: the paths the run has probed, read or written
    denied,    \* history: the paths whose chmod the system refused
    other      \* a second run on the same filesystem that is not on the processor

vars == <<op, cfg, fs, self, pc, err, failedAt, steps, fs0, written, log, last,
          touched, denied, other>>

(***************************************************************************)
(* Bounds of the model.                                                    *)
(***************************************************************************)
MaxCells == 2      \* cells of an input notebook of the stamping driver
MaxCalls == 3      \* add_text_to_cell calls made by the stamping driver
MaxEntries == 2    \* entries of a release tree / of a local destination tree

(***************************************************************************)
(* Names, paths, nodes.                                                    *)
(***************************************************************************)
N(parts, ext) == [stem |-> parts, ext |-> ext]
D(s) == N(<<s>>, "")

\* permission bits as sets of the stat names
S_IRWXU == {"S_IRUSR", "S_IWUSR", "S_IXUSR"}
S_IRWXG == {"S_IRGRP", "S_IWGRP", "S_IXGRP"}
S_IRWXO == {"S_IROTH", "S_IWOTH", "S_IXOTH"}
Mode644 == {"S_IRUSR", "S_IWUSR", "S_IRGRP", "S_IROTH"}
Mode755 == S_IRWXU \cup {"S_IRGRP", "S_IXGRP", "S_IROTH", "S_IXOTH"}

\* acc is the access os.access() grants the caller on the entry, mode its
\* permission bits
DirNode == [kind |-> "dir", data |-> <<>>, acc |-> {"r", "w", "x"}, mode |-> Mode755]
FileNode(d) == [kind |-> "file", data |-> d, acc |-> {"r", "w"}, mode |-> Mode644]

exists(f, p) == p \in DOMAIN f
isdir(f, p) == p \in DOMAIN f /\ f[p].kind = "dir"
isfile(f, p) == p \in DOMAIN f /\ f[p].kind = "file"

\* utils.check_mode / utils.check_directory: os.access of the wanted modes
check_mode(f, p, want) == p \in DOMAIN f /\ want \subseteq f[p].acc
check_directory(f, p, want) == isdir(f, p) /\ check_mode(f, p, want)

IsPrefix(p, q) == Len(p) <= Len(q) /\ SubSeq(q, 1, Len(p)) = p
Under(f, p) == {q \in DOMAIN f : IsPrefix(p, q) /\ q # p}
listdir(f, p) == {q[Len(q)] : q \in {r \in DOMAIN f : Len(r) = Len(p) + 1 /\ IsPrefix(p, r)}}

\* f with the entries of g added or replaced
Overlay(f, g) == [p \in DOMAIN f \cup DOMAIN g |-> IF p \in DOMAIN g THEN g[p] ELSE f[p]]
Put(f, p, node) == Overlay(f, [q \in {p} |-> node])

(***************************************************************************)
(* Notebook documents.                                                     *)
(***************************************************************************)
Str(s) == [s |-> s, h |-> <<>>]
Source(msg, text) == [msg |-> msg, text |-> text]
Plain(s) == Source("", Str(s))

NoMeta == [k \in {} |-> ""]
Tags == {"timestamp_cell", "hashcode_cell"}

CarriesTag(c, tag) == "name" \in DOMAIN c.metadata /\ c.metadata["name"] = tag
TaggedCells(doc, tag) == {i \in 1..Len(doc) : CarriesTag(doc[i], tag)}
CountTag(doc, tag) == Cardinality(TaggedCells(doc, tag))

SetMax(S) == CHOOSE m \in S : \A n \in S : n <= m

\* nbformat.v4.new_markdown_cell
new_markdown_cell(src) == [cell_type |-> "markdown", metadata |-> NoMeta, source |-> src]

\* the formatted alert block: determined by msg and str(text)
cell_content(msg, text) == Source(msg, text)

\* the indices the scan of add_text_to_cell accepts; the loop keeps the last one
meta_matches(nbr, cell_id) ==
    {i \in 1..Len(nbr) : /\ nbr[i].cell_type = "markdown"
                         /\ "name" \in DOMAIN nbr[i].metadata
                         /\ nbr[i].metadata["name"] = cell_id}

\* mutant: the scan result is ignored and a cell is always appended
stamp_cells_always_append(nbr, text, cell_id, msg) ==
    Append(nbr, [cell_type |-> "markdown",
                 metadata |-> [name |-> cell_id, deletable |-> FALSE, editable |-> FALSE],
                 source |-> cell_content(msg, text)])

\* mutant: a found stamp is written into the first cell instead of the found one
stamp_cells_first_index(nbr, text, cell_id, msg) ==
    IF meta_matches(nbr, cell_id) # {}
    THEN [nbr EXCEPT ![1].source = cell_content(msg, text)]
    ELSE stamp_cells_always_append(nbr, text, cell_id, msg)

\* add_text_to_cell on the cells read from the notebook file
stamp_cells(nbr, text, cell_id, msg) ==
    LET found == meta_matches(nbr, cell_id)
        addition == [new_markdown_cell(cell_content(msg, text)) EXCEPT
                        !.metadata = [name |-> cell_id, deletable |-> FALSE, editable |-> FALSE]]
    IN  IF found # {}
        THEN [nbr EXCEPT ![SetMax(found)].source = cell_content(msg, text)]
        ELSE Append(nbr, addition)

\* add_text_to_cell: read the file, stamp, write the file back
add_text_to_cell(f, notebook_file, text, cell_id, msg) ==
    [f EXCEPT ![notebook_file].data = stamp_cells(f[notebook_file].data, text, cell_id, msg)]

TagMsg(tag) == IF tag = "timestamp_cell" THEN "Timestamp" ELSE "Ihr Hashcode"

(***************************************************************************)
(* Fixed places of the filesystem.                                         *)
(***************************************************************************)
ROOT == <<D("exchange")>>          \* Exchange.root
CWD == <<D("home")>>               \* the working directory of the process
CACHE == <<D("cache")>>            \* Exchange.cache
Course == "c1"
Assignment == "ps1"

DefaultCfg ==
    [course_id |-> Course, assignment_id |-> Assignment, groupshared |-> FALSE,
     path_includes_course |-> FALSE, replace_missing_files |-> FALSE,
     personalized_outbound |-> FALSE, strict |-> FALSE, add_random_string |-> FALSE,
     hub_user |-> "u1", username |-> "u1", cwd |-> CWD]
Unset == "None"                    \* os.getenv of a variable that is not set

NoSelf == [src_path |-> <<>>, dest_path |-> <<>>, timestamp |-> "", outbound_path |-> <<>>,
           inbound_path |-> <<>>, cache_path |-> <<>>, release_path |-> <<>>,
           assignment_filename |-> <<>>, copied |-> <<>>]

NoCall == [tag |-> "", text |-> Str(""), before |-> <<>>, nth |-> 0]

NoOther == [pc |-> "none"]

(***************************************************************************)
(* The stamping driver: add_text_to_cell called repeatedly on one notebook *)
(* file, with any tag and text, from any bounded input document.           *)
(***************************************************************************)
StampFile == CWD \o <<D(Assignment), N(<<Assignment>>, "ipynb")>>
StampTexts == {Str("t1"), Str("t2")}
StampCells ==
    {[cell_type |-> t, metadata |-> m, source |-> Plain("body")] :
        t \in {"markdown", "code"}, m \in {NoMeta} \cup {[name |-> g] : g \in Tags}}
StampDocs == UNION {[1..n -> StampCells] : n \in 0..MaxCells}

StampFs(doc) ==
    [p \in {CWD, CWD \o <<D(Assignment)>>, StampFile} |->
        IF p = StampFile THEN FileNode(doc) ELSE DirNode]

InitStamp ==
    /\ op = "stamp"
    /\ cfg = DefaultCfg
    /\ \E doc \in StampDocs : fs = StampFs(doc)
    /\ fs0 = fs
    /\ self = NoSelf
    /\ pc = "stamping"
    /\ err = "none"
    /\ failedAt = "none"
    /\ steps = <<>>
    /\ written = {}
    /\ log = {}
    /\ last = NoCall
    /\ touched = {}
    /\ denied = {}
    /\ other = NoOther

CallsWith(tag) == Cardinality({i \in 1..Len(steps) : steps[i] = tag})

AddTextToCell ==
    /\ op = "stamp"
    /\ pc = "stamping"
    /\ Len(steps) < MaxCalls
    /\ \E tag \in Tags, text \in StampTexts :
        /\ fs' = add_text_to_cell(fs, StampFile, text, tag, TagMsg(tag))
        /\ last' = [tag |-> tag, text |-> text, before |-> fs[StampFile].data,
                    nth |-> CallsWith(tag) + 1]
        /\ steps' = Append(steps, tag)
    /\ written' = written \cup {StampFile}
    /\ UNCHANGED <<op, cfg, self, pc, err, failedAt, fs0, log, touched, denied, other>>

NextStamp == AddTextToCell

SpecStamp == InitStamp /\ [][NextStamp]_vars

StampDoc == fs[StampFile].data

\* C7: stamping is an idempotent upsert.  From a document in which no cell
\* bears tag T, the first add_text_to_cell call with T appends exactly one
\* cell bearing T; every later call with T leaves exactly one cell bearing T
\* and the same number of cells, and changes only that cell's content, to the
\* text of the latest call.
C7_StampIdempotentUpsert ==
    (op = "stamp" /\ last.nth > 0 /\ CountTag(fs0[StampFile].data, last.tag) = 0) =>
        LET T == last.tag
            b == last.before
            a == StampDoc
        IN  /\ CountTag(a, T) = 1
            /\ IF last.nth = 1
               THEN /\ CountTag(b, T) = 0
                    /\ Len(a) = Len(b) + 1
                    /\ SubSeq(a, 1, Len(b)) = b
                    /\ CarriesTag(a[Len(a)], T)
                    /\ a[Len(a)].source = cell_content(TagMsg(T), last.text)
               ELSE /\ Len(a) = Len(b)
                    /\ \E i \in TaggedCells(b, T) :
                         a = [b EXCEPT ![i].source = cell_content(TagMsg(T), last.text)]

\* C7 witness: the same tag has been stamped a second time, with another text,
\* into a document that did not bear it at first.
C7_Witness ==
    /\ op = "stamp"
    /\ last.nth = 2
    /\ CountTag(fs0[StampFile].data, last.tag) = 0
    /\ StampDoc # last.before

\* C8: after add_text_to_cell with tag T, at most one cell of the document
\* carries T, whatever the input document was (a non-markdown cell named T,
\* or several cells already carrying T, included).
C8_AtMostOneTagged ==
    (op = "stamp" /\ last.nth > 0) => CountTag(StampDoc, last.tag) <= 1

CKPT == D(".ipynb_checkpoints")
NB2 == N(<<"extra">>, "ipynb")
NB1 == N(<<Assignment>>, "ipynb")
UDIR == D("u1")
PYC == N(<<"x">>, "pyc")

\* the names of the model in the order Python's sorted() gives their strings
DATA == N(<<"data">>, "csv")
SortedNames == <<CKPT, DATA, NB2, NB1, N(<<Assignment, "_hashcode">>, "html"),
                 N(<<"timestamp">>, "txt"), UDIR, N(<<"u1", "_info">>, "txt"),
                 N(<<"u2", "_info">>, "txt"), PYC>>
sorted(S) == SelectSeq(SortedNames, LAMBDA n : n \in S)

\* fnmatch.fnmatch for patterns "<stem>" and "*.<ext>"
fnmatch(name, pat) == (pat.stem = <<"*">> \/ pat.stem = name.stem) /\ pat.ext = name.ext
\* shutil.ignore_patterns(*patterns)(dir, names)
ignore_patterns(names, patterns) == {n \in names : \E pat \in patterns : fnmatch(n, pat)}

\* coursedir.ignore
IgnoreGlobs == {N(<<".ipynb_checkpoints">>, ""), N(<<"*">>, "pyc")}

\* os.path.join(a, b) of two relative names: an empty first part adds nothing
join(a, b) == IF a = "" THEN <<D(b)>> ELSE <<D(a), D(b)>>

Outcome(f, raised, wr) == [fs |-> f, raised |-> raised, written |-> wr]

\* os.makedirs(p): creates p and its missing ancestors
makedirs(f, p) ==
    LET chain == {SubSeq(p, 1, k) : k \in 1..Len(p)}
    IN  IF exists(f, p) \/ \E q \in chain : isfile(f, q)
        THEN Outcome(f, TRUE, {})
        ELSE Outcome(Overlay(f, [q \in chain \ DOMAIN f |-> DirNode]), FALSE, chain \ DOMAIN f)

\* shutil.copytree(src, dst, ignore=ignore_patterns(*patterns)): errors of the
\* entries are collected, the other entries are still copied, and the
\* collected errors are raised at the end
RECURSIVE copytree(_, _, _, _)
RECURSIVE copytree_loop(_, _, _, _, _)
copytree_loop(o, src, dst, names, patterns) ==
    IF names = <<>> THEN o
    ELSE LET srcname == src \o <<Head(names)>>
             dstname == dst \o <<Head(names)>>
             r == IF isdir(o.fs, srcname)
                  THEN LET sub == copytree(o.fs, srcname, dstname, patterns)
                       IN  Outcome(sub.fs, o.raised \/ sub.raised, o.written \cup sub.written)
                  ELSE IF "r" \in o.fs[srcname].acc
                       THEN Outcome(Put(o.fs, dstname, o.fs[srcname]), o.raised,
                                    o.written \cup {dstname})
                       ELSE Outcome(o.fs, TRUE, o.written)
         IN  copytree_loop(r, src, dst, Tail(names), patterns)

copytree(f, src, dst, patterns) ==
    IF ~isdir(f, src) \/ "r" \notin f[src].acc THEN Outcome(f, TRUE, {})
    ELSE LET names == listdir(f, src)
             made == makedirs(f, dst)
             stat == Outcome([made.fs EXCEPT ![dst].mode = f[src].mode], FALSE, made.written)
         IN  IF made.raised THEN made
             ELSE copytree_loop(stat, src, dst,
                                sorted(names \ ignore_patterns(names, patterns)), patterns)

\* mutant: a destination entry that exists is overwritten from the source
RECURSIVE copy_if_missing_overwrites(_, _, _, _)
RECURSIVE cim_overwrites_loop(_, _, _, _, _)
cim_overwrites_loop(o, src, dest, names, patterns) ==
    IF names = <<>> \/ o.raised THEN o
    ELSE LET srcpath == src \o <<Head(names)>>
             destpath == dest \o <<Head(names)>>
             r1 == IF ~isdir(o.fs, dest) THEN Outcome(o.fs, TRUE, o.written)
                   ELSE IF isdir(o.fs, srcpath)
                   THEN (IF exists(o.fs, destpath) THEN o
                         ELSE Outcome(Put(o.fs, destpath, DirNode), FALSE,
                                      o.written \cup {destpath}))
                   ELSE Outcome(Put(o.fs, destpath, o.fs[srcpath]), FALSE,
                                o.written \cup {destpath})
             r2 == IF ~r1.raised /\ isdir(r1.fs, srcpath)
                   THEN copy_if_missing_overwrites(r1, srcpath, destpath, patterns)
                   ELSE r1
         IN  cim_overwrites_loop(r2, src, dest, Tail(names), patterns)

copy_if_missing_overwrites(o, src, dest, patterns) ==
    IF ~isdir(o.fs, src) THEN Outcome(o.fs, TRUE, o.written)
    ELSE LET filenames == listdir(o.fs, src)
         IN  cim_overwrites_loop(o, src, dest,
                 sorted(filenames \ ignore_patterns(filenames, patterns)), patterns)

\* ExchangeFetchAssignment.copy_if_missing(src, dest, ignore): o carries the
\* filesystem and the paths written so far; an exception ends the walk
RECURSIVE copy_if_missing(_, _, _, _)
RECURSIVE copy_if_missing_loop(_, _, _, _, _)
copy_if_missing_loop(o, src, dest, names, patterns) ==
    IF names = <<>> \/ o.raised THEN o
    ELSE LET srcpath == src \o <<Head(names)>>
             destpath == dest \o <<Head(names)>>
             r1 == IF exists(o.fs, destpath) THEN o
                   ELSE IF ~isdir(o.fs, dest) THEN Outcome(o.fs, TRUE, o.written)
                   ELSE IF isdir(o.fs, srcpath)
                   THEN Outcome(Put(o.fs, destpath, DirNode), FALSE, o.written \cup {destpath})
                   ELSE Outcome(Put(o.fs, destpath, o.fs[srcpath]), FALSE,
                                o.written \cup {destpath})
             r2 == IF ~r1.raised /\ isdir(r1.fs, srcpath)
                   THEN copy_if_missing(r1, srcpath, destpath, patterns)
                   ELSE r1
         IN  copy_if_missing_loop(r2, src, dest, Tail(names), patterns)

copy_if_missing(o, src, dest, patterns) ==
    IF ~isdir(o.fs, src) THEN Outcome(o.fs, TRUE, o.written)
    ELSE LET filenames == listdir(o.fs, src)
         IN  copy_if_missing_loop(o, src, dest,
                 sorted(filenames \ ignore_patterns(filenames, patterns)), patterns)

(***************************************************************************)
(* Exchange.start(): the part before the three hooks, and how a run ends.  *)
(***************************************************************************)
AfterStep(at) ==
    CASE at = "start" -> "init_src"
      [] at = "init_src" -> "init_dest"
      [] at = "init_dest" -> "copy_files"
      [] OTHER -> "done"

\* mutant: the error is recorded but the run goes on to the next step
Raise_and_continue(e, at) ==
    /\ pc' = AfterStep(at)
    /\ err' = e
    /\ failedAt' = at

\* Exchange.fail / a raised exception: nothing in start() catches it
Raise(e, at) ==
    /\ pc' = "failed"
    /\ err' = e
    /\ failedAt' = at

ClockReadings == IF op = "submit" THEN {"t1", "t2"} ELSE {"t1"}

\* Exchange.ensure_root: check_directory(self.root, write=False, execute=False)
ensure_root(f) == check_directory(f, ROOT, {})

Start ==
    /\ pc = "start"
    /\ \E platform \in {"linux", "win32"}, now \in ClockReadings :
         IF platform = "win32"
         THEN Raise("ExchangeError: not available on Windows", "start")
              /\ UNCHANGED <<self, touched>>
         ELSE IF ~cfg.groupshared /\ ~ensure_root(fs)
         THEN Raise("ExchangeError: unwritable directory", "start")
              /\ touched' = touched \cup {ROOT}
              /\ UNCHANGED self
         ELSE /\ self' = [self EXCEPT !.timestamp = now]
              /\ touched' = IF cfg.groupshared THEN touched ELSE touched \cup {ROOT}
              /\ pc' = "init_src"
              /\ UNCHANGED <<err, failedAt>>
    /\ UNCHANGED <<op, cfg, fs, steps, fs0, written, log, last, denied, other>>

(***************************************************************************)
(* ExchangeFetchAssignment.                                                *)
(***************************************************************************)
\* mutant: init_src without the check of the release directory's mode
FetchInitSrc_mode_unchecked ==
    /\ op = "fetch"
    /\ pc = "init_src"
    /\ steps' = Append(steps, "init_src")
    /\ \E has_access \in BOOLEAN :
         LET src_path == ROOT \o <<D(cfg.course_id), D("outbound"), D(cfg.assignment_id)>>
         IN  IF cfg.course_id = ""
             THEN Raise("ExchangeError: no course id", "init_src")
                  /\ UNCHANGED <<self, touched>>
             ELSE IF ~has_access
             THEN Raise("ExchangeError: no access to this course", "init_src")
                  /\ UNCHANGED <<self, touched>>
             ELSE /\ self' = [self EXCEPT !.outbound_path =
                                              SubSeq(src_path, 1, Len(src_path) - 1),
                                          !.src_path = src_path]
                  /\ touched' = touched \cup {src_path}
                  /\ IF ~isdir(fs, src_path)
                     THEN Raise("ExchangeError: assignment not found", "init_src")
                     ELSE pc' = "init_dest" /\ UNCHANGED <<err, failedAt>>
    /\ UNCHANGED <<op, cfg, fs, fs0, written, log, last, denied, other>>

FetchInitSrc ==
    /\ op = "fetch"
    /\ pc = "init_src"
    /\ steps' = Append(steps, "init_src")
    /\ \E has_access \in BOOLEAN :
         LET course_path == ROOT \o <<D(cfg.course_id)>>
             outbound_path == course_path \o <<D("outbound")>>
             src_path == outbound_path \o <<D(cfg.assignment_id)>>
         IN  IF cfg.course_id = ""
             THEN Raise("ExchangeError: no course id", "init_src")
                  /\ UNCHANGED <<self, touched>>
             ELSE IF ~has_access
             THEN Raise("ExchangeError: no access to this course", "init_src")
                  /\ UNCHANGED <<self, touched>>
             ELSE /\ self' = [self EXCEPT !.outbound_path = outbound_path,
                                          !.src_path = src_path]
                  /\ touched' = touched \cup {src_path}
                  /\ IF ~isdir(fs, src_path)
                     THEN Raise("ExchangeError: assignment not found", "init_src")
                     ELSE IF ~check_mode(fs, src_path, {"r", "x"})
                     THEN Raise("ExchangeError: no read permissions", "init_src")
                     ELSE pc' = "init_dest" /\ UNCHANGED <<err, failedAt>>
    /\ UNCHANGED <<op, cfg, fs, fs0, written, log, last, denied, other>>

\* init_dest, lines 51-55: the local destination
fetch_dest_path(c) ==
    CWD \o (IF c.path_includes_course
            THEN join(c.course_id, c.assignment_id)
            ELSE <<D(c.assignment_id)>>)

\* mutant: the existing copy is not noticed
already_fetched_never(f, dest_path, replace_missing_files) == FALSE

\* init_dest, line 56
already_fetched(f, dest_path, replace_missing_files) ==
    isdir(f, dest_path) /\ ~replace_missing_files

FetchInitDest ==
    /\ op = "fetch"
    /\ pc = "init_dest"
    /\ steps' = Append(steps, "init_dest")
    /\ self' = [self EXCEPT !.dest_path = fetch_dest_path(cfg)]
    /\ IF already_fetched(fs, fetch_dest_path(cfg), cfg.replace_missing_files)
       THEN Raise("ExchangeError: you already have a copy", "init_dest")
       ELSE pc' = "copy_files" /\ UNCHANGED <<err, failedAt>>
    /\ touched' = touched \cup {fetch_dest_path(cfg)}
    /\ UNCHANGED <<op, cfg, fs, fs0, written, log, last, denied, other>>

\* do_copy, lines 84-88: the directory the copy reads
personalized_src(f, c, src) ==
    IF c.personalized_outbound /\ exists(f, src \o <<D(c.hub_user)>>)
    THEN src \o <<D(c.hub_user)>>
    ELSE src

\* mutant: nothing is ignored
fetch_ignore_nothing(c) == {}

\* the globs handed to shutil.ignore_patterns
fetch_ignore(c) == IgnoreGlobs

\* ExchangeFetchAssignment.do_copy
fetch_do_copy(f, c, src, dest) ==
    IF c.personalized_outbound /\ c.hub_user = Unset
    THEN Outcome(f, TRUE, {})
    ELSE IF isdir(f, dest)
         THEN copy_if_missing(Outcome(f, FALSE, {}), personalized_src(f, c, src), dest,
                              fetch_ignore(c))
         ELSE copytree(f, personalized_src(f, c, src), dest, fetch_ignore(c))

FetchCopyFiles ==
    /\ op = "fetch"
    /\ pc = "copy_files"
    /\ steps' = Append(steps, "copy_files")
    /\ LET o == fetch_do_copy(fs, cfg, self.src_path, self.dest_path)
       IN  /\ fs' = o.fs
           /\ written' = written \cup o.written
           /\ IF o.raised
              THEN Raise("error in do_copy", "copy_files")
              ELSE pc' = "scrambling" /\ UNCHANGED <<err, failedAt>>
           /\ touched' = touched \cup {self.src_path, self.dest_path} \cup o.written
    /\ UNCHANGED <<op, cfg, self, fs0, log, last, denied, other>>

\* glob.glob(dest + '/*.ipynb')
glob_notebooks(f, dest) ==
    {dest \o <<n>> : n \in {m \in listdir(f, dest) : fnmatch(m, N(<<"*">>, "ipynb"))}}

starts_with_scramble(nb) ==
    Len(nb) > 0 /\ nb[1].source.msg = "" /\ nb[1].source.text.s = "%% scramble"

Reverse(q) == [i \in 1..Len(q) |-> q[Len(q) + 1 - i]]

\* Scramble and PermuteTasks, seeded with hash(student_id), which differs from
\* process to process: the notebook comes back as it was or rearranged
scramble_outcomes(nb) == IF starts_with_scramble(nb) THEN {nb, Reverse(nb)} ELSE {nb}

\* do_scrambling: the filesystems it can leave; every notebook found is written back
do_scrambling(f, dest) ==
    LET nbs == glob_notebooks(f, dest)
        docs == UNION {scramble_outcomes(f[p].data) : p \in nbs}
        picks == {pick \in [nbs -> docs] : \A p \in nbs : pick[p] \in scramble_outcomes(f[p].data)}
    IN  {[p \in DOMAIN f |-> IF p \in nbs THEN [f[p] EXCEPT !.data = pick[p]] ELSE f[p]] :
            pick \in picks}

FetchScramble ==
    /\ op = "fetch"
    /\ pc = "scrambling"
    /\ fs' \in do_scrambling(fs, self.dest_path)
    /\ written' = written \cup glob_notebooks(fs, self.dest_path)
    /\ pc' = "done"
    /\ touched' = touched \cup {self.dest_path} \cup glob_notebooks(fs, self.dest_path)
    /\ UNCHANGED <<op, cfg, self, err, failedAt, steps, fs0, log, last, denied, other>>

(***************************************************************************)
(* The inputs of a fetch: a release tree in the exchange, a local          *)
(* destination tree, the configuration.                                    *)
(***************************************************************************)
Front(q) == SubSeq(q, 1, Len(q) - 1)

DocReleased == <<new_markdown_cell(Plain("released"))>>
DocReleasedScramble == <<new_markdown_cell(Plain("%% scramble")), new_markdown_cell(Plain("released"))>>
DocStudent == <<new_markdown_cell(Plain("student"))>>
DocStudentScramble == <<new_markdown_cell(Plain("%% scramble")), new_markdown_cell(Plain("student"))>>

CandPaths == {<<NB1>>, <<PYC>>, <<UDIR>>, <<CKPT>>, <<UDIR, NB1>>, <<UDIR, PYC>>, <<CKPT, NB1>>}

\* the nodes an entry may be: notebooks are files, the checkpoint directory
\* is a directory, the directory named after the user may be either
AllowedNodes(p, docs) ==
    LET n == p[Len(p)]
    IN  IF n = CKPT THEN {DirNode}
        ELSE IF n = UDIR THEN {DirNode} \cup {FileNode(d) : d \in docs}
        ELSE IF n = PYC THEN {FileNode(<<>>)}
        ELSE {FileNode(d) : d \in docs}

\* the trees of at most MaxEntries entries, as relative paths; <<>> is the
\* directory itself
Trees(docs) ==
    LET nodes == {DirNode, FileNode(<<>>)} \cup {FileNode(d) : d \in docs}
        shapes == {S \in SUBSET CandPaths : Cardinality(S) <= MaxEntries}
    IN  {t \in UNION {[S \cup {<<>>} -> nodes] : S \in shapes} :
            /\ t[<<>>] = DirNode
            /\ \A p \in DOMAIN t \ {<<>>} :
                 /\ t[p] \in AllowedNodes(p, docs)
                 /\ isdir(t, Front(p))}

NoTree == [p \in {} |-> DirNode]
Graft(base, t) == [p \in {base \o q : q \in DOMAIN t} |-> t[SubSeq(p, Len(base) + 1, Len(p))]]
Dirs(ps) == [p \in ps |-> DirNode]
Ancestors(p) == {SubSeq(p, 1, k) : k \in 1..(Len(p) - 1)}

ReleaseDir == ROOT \o <<D(Course), D("outbound"), D(Assignment)>>

FetchFs(c, release, local, srcAcc) ==
    LET base == Dirs({ROOT, ROOT \o <<D(Course)>>, ROOT \o <<D(Course), D("outbound")>>, CWD})
        rel == Graft(ReleaseDir, release)
        relAcc == [p \in DOMAIN rel |-> IF p = ReleaseDir THEN [rel[p] EXCEPT !.acc = srcAcc]
                                        ELSE rel[p]]
        dest == fetch_dest_path([c EXCEPT !.course_id = Course])
        loc == IF local = NoTree THEN NoTree
               ELSE Overlay(Dirs(Ancestors(dest)), Graft(dest, local))
    IN  Overlay(Overlay(base, relAcc), loc)

FetchCfgs ==
    {[DefaultCfg EXCEPT !.course_id = ci, !.groupshared = gs, !.path_includes_course = pic,
                        !.replace_missing_files = rmf, !.personalized_outbound = po,
                        !.hub_user = hu] :
        ci \in {"", Course}, gs \in BOOLEAN, pic \in BOOLEAN, rmf \in BOOLEAN,
        po \in BOOLEAN, hu \in {"u1", Unset}}

\* a fixed release and a fixed local copy, for the runs that vary the
\* configuration and the permissions
OneRelease == [p \in {<<>>, <<NB1>>} |-> IF p = <<>> THEN DirNode ELSE FileNode(DocReleased)]
OneLocal == [p \in {<<>>, <<NB1>>} |-> IF p = <<>> THEN DirNode ELSE FileNode(DocStudent)]

InitFetch ==
    /\ op = "fetch"
    /\ \/ \E c \in FetchCfgs, release \in {NoTree, OneRelease}, local \in {NoTree, OneLocal},
             srcAcc \in {{"r", "w", "x"}, {"x"}} :
             /\ cfg = c
             /\ fs = FetchFs(c, release, local, srcAcc)
       \/ \E c \in {k \in FetchCfgs : k.course_id = Course /\ ~k.groupshared},
             release \in Trees({DocReleased, DocReleasedScramble}),
             local \in {NoTree} \cup Trees({DocStudent, DocStudentScramble}) :
             /\ cfg = c
             /\ fs = FetchFs(c, release, local, {"r", "w", "x"})
    /\ fs0 = fs
    /\ self = NoSelf
    /\ pc = "start"
    /\ err = "none"
    /\ failedAt = "none"
    /\ steps = <<>>
    /\ written = {}
    /\ log = {}
    /\ last = NoCall
    /\ touched = {}
    /\ denied = {}
    /\ other = NoOther

NextFetch == Start \/ FetchInitSrc \/ FetchInitDest \/ FetchCopyFiles \/ FetchScramble

SpecFetch == InitFetch /\ [][NextFetch]_vars

(***************************************************************************)
(* Properties of a fetch.                                                  *)
(***************************************************************************)
RelUnder(f, base) == {SubSeq(p, Len(base) + 1, Len(p)) : p \in Under(f, base)}
Ignored(n) == \E pat \in IgnoreGlobs : fnmatch(n, pat)
\* the relative paths under base none of whose components matches an ignore glob
NonIgnored(f, base) == {q \in RelUnder(f, base) : \A i \in 1..Len(q) : ~Ignored(q[i])}
SameKinds(f, fbase, g, gbase, rels) == \A q \in rels : f[fbase \o q].kind = g[gbase \o q].kind

FreshFetchDone == op = "fetch" /\ pc = "done" /\ ~exists(fs0, self.dest_path)

\* C3 as claimed: after a fetch into a destination that did not exist, the
\* destination holds exactly the files and directories of the release
\* directory that match no ignore glob at any depth, and nothing else.
C3_FetchCopiesRelease ==
    FreshFetchDone =>
        /\ RelUnder(fs, self.dest_path) = NonIgnored(fs0, ReleaseDir)
        /\ SameKinds(fs, self.dest_path, fs0, ReleaseDir, NonIgnored(fs0, ReleaseDir))

\* C3 as amended: the destination holds exactly the non-ignored files and
\* directories of the directory the copy reads: the release directory, or,
\* with personalized_outbound set and an entry named after JUPYTERHUB_USER in
\* the release, that entry.
C3_FetchCopiesSource ==
    FreshFetchDone =>
        LET user == ReleaseDir \o <<D(cfg.hub_user)>>
            src == IF cfg.personalized_outbound /\ user \in DOMAIN fs0 THEN user ELSE ReleaseDir
        IN  /\ RelUnder(fs, self.dest_path) = NonIgnored(fs0, src)
            /\ SameKinds(fs, self.dest_path, fs0, src, NonIgnored(fs0, src))
            /\ isdir(fs, self.dest_path)

\* C3 witness: a fresh fetch ended, the release held an ignored entry and a
\* file beneath a directory, and the destination is not empty.
C3_Witness ==
    /\ FreshFetchDone
    /\ ~cfg.personalized_outbound
    /\ \E q \in RelUnder(fs0, ReleaseDir) : Ignored(q[1])
    /\ RelUnder(fs, self.dest_path) # {}

\* C4: a fetch whose destination directory exists while replace_missing_files
\* is false fails in init_dest; it never reaches copy_files or the
\* scrambling, and the whole filesystem stays as it was.
C4_ExistingDestFailsCleanly ==
    (op = "fetch" /\ isdir(fs0, fetch_dest_path(cfg)) /\ ~cfg.replace_missing_files) =>
        /\ fs = fs0
        /\ written = {}
        /\ pc \notin {"copy_files", "scrambling", "done"}
        /\ Len(steps) <= 2
        /\ Len(steps) = 2 => (pc = "failed" /\ failedAt = "init_dest")

\* C4 witness: such a fetch has failed in init_dest.
C4_Witness ==
    /\ op = "fetch"
    /\ isdir(fs0, fetch_dest_path(cfg))
    /\ ~cfg.replace_missing_files
    /\ pc = "failed"
    /\ failedAt = "init_dest"
    /\ Under(fs0, fetch_dest_path(cfg)) # {}

FillMissingSrc ==
    LET user == ReleaseDir \o <<D(cfg.hub_user)>>
    IN  IF cfg.personalized_outbound /\ user \in DOMAIN fs0 THEN user ELSE ReleaseDir

FillMissingCalled ==
    /\ op = "fetch"
    /\ isdir(fs0, fetch_dest_path(cfg))
    /\ Len(steps) = 3
    /\ pc \in {"scrambling", "failed"}

\* C5: copy_if_missing never overwrites: every path of the destination that
\* existed before the call is there after it, unchanged, also when the call
\* raises; and when the call returns, every non-ignored source file that was
\* absent from the destination is there with the source's content.
C5_FillMissingNeverOverwrites ==
    FillMissingCalled =>
        LET dest == fetch_dest_path(cfg)
            src == FillMissingSrc
        IN  /\ \A p \in DOMAIN fs0 : IsPrefix(dest, p) => (p \in DOMAIN fs /\ fs[p] = fs0[p])
            /\ pc = "scrambling" =>
                 \A q \in NonIgnored(fs0, src) :
                    (isfile(fs0, src \o q) /\ ~exists(fs0, dest \o q)) =>
                        (isfile(fs, dest \o q) /\ fs[dest \o q].data = fs0[src \o q].data)

\* C5 witness: the call returned, the destination held a notebook that
\* differs from the released one, and a missing file was created.
C5_Witness ==
    /\ FillMissingCalled
    /\ pc = "scrambling"
    /\ \E q \in NonIgnored(fs0, FillMissingSrc) :
         /\ isfile(fs0, fetch_dest_path(cfg) \o q)
         /\ isfile(fs0, FillMissingSrc \o q)
         /\ fs0[fetch_dest_path(cfg) \o q].data # fs0[FillMissingSrc \o q].data
    /\ \E q \in NonIgnored(fs0, FillMissingSrc) :
         /\ isfile(fs0, FillMissingSrc \o q)
         /\ ~exists(fs0, fetch_dest_path(cfg) \o q)
         /\ isfile(fs, fetch_dest_path(cfg) \o q)

\* C6: a complete fetch with replace_missing_files into an existing
\* destination leaves every file that was in the destination untouched, the
\* scrambling step included: none is rewritten, none changes content.
C6_ReplaceMissingKeepsExisting ==
    (op = "fetch" /\ pc = "done" /\ cfg.replace_missing_files /\ isdir(fs0, self.dest_path)) =>
        \A p \in DOMAIN fs0 :
            (IsPrefix(self.dest_path, p) /\ isfile(fs0, p)) =>
                (p \in DOMAIN fs /\ fs[p] = fs0[p] /\ p \notin written)

(***************************************************************************)
(* ExchangeSubmit.                                                         *)
(***************************************************************************)
\* init_src, lines 40-46
submit_src_path(c) ==
    c.cwd \o (IF c.path_includes_course
              THEN join(c.course_id, c.assignment_id)
              ELSE <<D(c.assignment_id)>>)

SubmitInitSrc ==
    /\ op = "submit"
    /\ pc = "init_src"
    /\ steps' = Append(steps, "init_src")
    /\ LET src_path == submit_src_path(cfg)
       IN  /\ self' = [self EXCEPT !.src_path = src_path]
           /\ cfg' = [cfg EXCEPT !.assignment_id = src_path[Len(src_path)].stem[1]]
           /\ IF ~isdir(fs, src_path)
              THEN Raise("ExchangeError: assignment not found", "init_src")
              ELSE pc' = "init_dest" /\ UNCHANGED <<err, failedAt>>
    /\ touched' = touched \cup {submit_src_path(cfg)}
    /\ UNCHANGED <<op, fs, fs0, written, log, last, denied, other>>

RandomStrs == {"r1", "r2"}         \* base64.urlsafe_b64encode(os.urandom(9))

\* mutant: the submission name does not carry the user's name
assignment_filename_anonymous(c, timestamp, random_str) ==
    IF c.add_random_string
    THEN <<"student", c.assignment_id, timestamp, random_str>>
    ELSE <<"student", c.assignment_id, timestamp>>

\* init_dest, lines 62-68: the '+'-separated fields of the submission name
assignment_filename(c, timestamp, random_str) ==
    IF c.add_random_string
    THEN <<c.username, c.assignment_id, timestamp, random_str>>
    ELSE <<c.username, c.assignment_id, timestamp>>

SubmitInitDest ==
    /\ op = "submit"
    /\ pc = "init_dest"
    /\ steps' = Append(steps, "init_dest")
    /\ \E random_str \in RandomStrs :
         LET inbound_path == ROOT \o <<D(cfg.course_id), D("inbound")>>
         IN  IF cfg.course_id = ""
             THEN Raise("ExchangeError: no course id", "init_dest")
                  /\ UNCHANGED <<self, touched>>
             ELSE IF ~isdir(fs, inbound_path)
             THEN /\ Raise("ExchangeError: inbound directory doesn't exist", "init_dest")
                  /\ self' = [self EXCEPT !.inbound_path = inbound_path]
                  /\ touched' = touched \cup {inbound_path}
             ELSE IF ~check_mode(fs, inbound_path, {"w", "x"})
             THEN /\ Raise("ExchangeError: no write permissions", "init_dest")
                  /\ self' = [self EXCEPT !.inbound_path = inbound_path]
                  /\ touched' = touched \cup {inbound_path}
             ELSE /\ touched' = touched \cup {inbound_path}
                  /\ self' = [self EXCEPT
                                !.inbound_path = inbound_path,
                                !.cache_path = CACHE \o <<D(cfg.course_id)>>,
                                !.assignment_filename =
                                    assignment_filename(cfg, self.timestamp, random_str)]
                  /\ pc' = "copy_files"
                  /\ UNCHANGED <<err, failedAt>>
    /\ UNCHANGED <<op, cfg, fs, fs0, written, log, last, denied, other>>

\* distutils.dir_util.copy_tree(src, dst): existing files are overwritten, the
\* first error ends the copy
RECURSIVE copy_tree(_, _, _)
RECURSIVE copy_tree_loop(_, _, _, _)
copy_tree_loop(o, src, dst, names) ==
    IF names = <<>> \/ o.raised THEN o
    ELSE LET srcname == src \o <<Head(names)>>
             dstname == dst \o <<Head(names)>>
             r == IF isdir(o.fs, srcname) THEN copy_tree(o, srcname, dstname)
                  ELSE IF "r" \in o.fs[srcname].acc /\ ~isdir(o.fs, dstname)
                       THEN Outcome(Put(o.fs, dstname, o.fs[srcname]), FALSE,
                                    o.written \cup {dstname})
                       ELSE Outcome(o.fs, TRUE, o.written)
         IN  copy_tree_loop(r, src, dst, Tail(names))

copy_tree(o, src, dst) ==
    LET chain == {SubSeq(dst, 1, k) : k \in 1..Len(dst)}
    IN  IF ~isdir(o.fs, src) \/ "r" \notin o.fs[src].acc \/ \E q \in chain : isfile(o.fs, q)
        THEN Outcome(o.fs, TRUE, o.written)
        ELSE copy_tree_loop(
                 Outcome(Overlay(o.fs, [q \in chain \ DOMAIN o.fs |-> DirNode]), FALSE,
                         o.written \cup (chain \ DOMAIN o.fs)),
                 src, dst, sorted(listdir(o.fs, src)))

\* utils.compute_hashcode(file, method='sha1'), cut and grouped: a value that
\* is determined by the notebook's content and determines it
compute_hashcode(nb) == [s |-> "sha1", h |-> nb]

\* the three lines of the receipt file
receipt(username, hashcode, timestamp) ==
    <<Source("Username", Str(username)), Source("Hashcode", hashcode),
      Source("Timestamp", Str(timestamp))>>

\* what nbconvert writes for a notebook
html_of(nb) == <<Source("html", [s |-> "nbconvert", h |-> nb])>>

\* mutant: the hashcode cell is stamped into the source notebook as well
stamp_and_render_hash_in_source(f, c, slf, rendered) ==
    LET nbfile == slf.src_path \o <<N(<<c.assignment_id>>, "ipynb")>>
        f1 == add_text_to_cell(f, nbfile, Str(slf.timestamp), "timestamp_cell", "Timestamp")
        hashcode == compute_hashcode(f1[nbfile].data)
        info == slf.src_path \o <<N(<<c.username, "_info">>, "txt")>>
        f3 == Put(f1, info, FileNode(receipt(c.username, hashcode, slf.timestamp)))
        f4 == add_text_to_cell(f3, nbfile, hashcode, "hashcode_cell", "Ihr Hashcode")
    IN  IF ~({"r", "w"} \subseteq f[nbfile].acc) THEN Outcome(f, TRUE, {})
        ELSE Outcome(f4, FALSE, {nbfile, info})

\* copy_files, lines 180-219: stamp the notebook, stage the .temp copy, write
\* the receipt, render.  rendered: whether the nbconvert command left an
\* html file (os.system does not report its failure)
stamp_and_render(f, c, slf, rendered) ==
    LET nbfile == slf.src_path \o <<N(<<c.assignment_id>>, "ipynb")>>
        temp_path == Front(slf.src_path) \o <<D(".temp"), D(c.assignment_id)>>
        f1 == add_text_to_cell(f, nbfile, Str(slf.timestamp), "timestamp_cell", "Timestamp")
        t == copy_tree(Outcome(f1, FALSE, {nbfile}), slf.src_path, temp_path)
        hashcode == compute_hashcode(f1[nbfile].data)
        info == slf.src_path \o <<N(<<c.username, "_info">>, "txt")>>
        f3 == Put(t.fs, info, FileNode(receipt(c.username, hashcode, slf.timestamp)))
        hashcoded == temp_path \o <<N(<<c.assignment_id>>, "ipynb")>>
        temp_html == temp_path \o <<N(<<c.assignment_id>>, "html")>>
        f4 == add_text_to_cell(f3, hashcoded, hashcode, "hashcode_cell", "Ihr Hashcode")
        f5 == IF rendered THEN Put(f4, temp_html, FileNode(html_of(f4[hashcoded].data))) ELSE f4
        student_html == slf.src_path \o <<N(<<c.assignment_id, "_hashcode">>, "html")>>
    IN  IF ~({"r", "w"} \subseteq f[nbfile].acc) THEN Outcome(f, TRUE, {})
        ELSE IF t.raised THEN t
        ELSE IF ~isfile(f5, temp_html)
        THEN Outcome(f5, TRUE, t.written \cup {info, hashcoded})
        ELSE Outcome(Put(f5, student_html, f5[temp_html]), FALSE,
                     t.written \cup {info, hashcoded, temp_html, student_html})

\* copy_files up to the check of the file names: init_release, then the
\* stamping of the notebook when there is one
SubmitPrepare ==
    /\ op = "submit"
    /\ pc = "copy_files"
    /\ steps' = Append(steps, "copy_files")
    /\ LET release_path == ROOT \o <<D(cfg.course_id), D("outbound"), D(cfg.assignment_id)>>
           nbfile == self.src_path \o <<N(<<cfg.assignment_id>>, "ipynb")>>
       IN  IF cfg.course_id = ""
           THEN Raise("ExchangeError: no course id", "init_release")
                /\ UNCHANGED <<self, fs, written, touched>>
           ELSE /\ self' = [self EXCEPT !.release_path = release_path]
                /\ touched' = touched \cup {release_path} \cup
                                 (IF check_directory(fs, release_path, {"r", "x"})
                                  THEN {nbfile} ELSE {})
                /\ IF ~isdir(fs, release_path)
                   THEN Raise("ExchangeError: assignment not found", "init_release")
                        /\ UNCHANGED <<fs, written>>
                   ELSE IF ~check_mode(fs, release_path, {"r", "x"})
                   THEN Raise("ExchangeError: no read permissions", "init_release")
                        /\ UNCHANGED <<fs, written>>
                   ELSE IF ~isfile(fs, nbfile)
                   THEN pc' = "check_filename_diff" /\ UNCHANGED <<fs, written, err, failedAt>>
                   ELSE \E rendered \in BOOLEAN :
                          LET o == stamp_and_render(fs, cfg, self, rendered)
                          IN  /\ fs' = o.fs
                              /\ written' = written \cup o.written
                              /\ IF o.raised
                                 THEN Raise("error while stamping", "stamp")
                                 ELSE pc' = "check_filename_diff" /\ UNCHANGED <<err, failedAt>>
    /\ UNCHANGED <<op, cfg, fs0, log, last, denied, other>>

\* utils.find_all_notebooks(path): the relative paths of the *.ipynb files
find_all_notebooks(f, path) ==
    {q \in RelUnder(f, path) :
        /\ isfile(f, path \o q)
        /\ q[Len(q)].ext = "ipynb"
        /\ \A k \in 0..(Len(q) - 1) : "r" \in f[path \o SubSeq(q, 1, k)].acc}

\* mutant: strict mode also fails on extra notebooks
check_filename_diff_any(released_notebooks, submitted_notebooks, strict) ==
    LET missing == released_notebooks \ submitted_notebooks # {}
        extra == submitted_notebooks \ released_notebooks # {}
    IN  IF missing \/ extra THEN (IF strict THEN "fail" ELSE "warning") ELSE "ok"

\* check_filename_diff: fail, warn or say nothing
check_filename_diff(released_notebooks, submitted_notebooks, strict) ==
    LET missing == \E filename \in released_notebooks : filename \notin submitted_notebooks
        extra == \E filename \in submitted_notebooks : filename \notin released_notebooks
    IN  IF missing \/ extra
        THEN (IF missing /\ strict THEN "fail" ELSE "warning")
        ELSE "ok"

SubmitCheckDiff ==
    /\ op = "submit"
    /\ pc = "check_filename_diff"
    /\ LET d == check_filename_diff(find_all_notebooks(fs, self.release_path),
                                    find_all_notebooks(fs, self.src_path), cfg.strict)
       IN  /\ log' = IF d = "warning" THEN log \cup {"warning: possible missing/extra notebooks"}
                     ELSE log
           /\ IF d = "fail"
              THEN Raise("ExchangeError: missing notebooks", "check_filename_diff")
              ELSE pc' = "copy_inbound" /\ UNCHANGED <<err, failedAt>>
    /\ touched' = touched \cup {self.release_path, self.src_path}
    /\ UNCHANGED <<op, cfg, fs, self, steps, fs0, written, last, denied, other>>

Mode2770 == {"S_ISGID"} \cup S_IRWXU \cup S_IRWXG
Mode2777 == Mode2770 \cup S_IRWXO
Mode660 == {"S_IRUSR", "S_IWUSR", "S_IRGRP", "S_IWGRP"}
Mode777 == S_IRWXU \cup S_IRWXG \cup S_IRWXO

\* do_copy, lines 163-180: the group-shared bits are or-ed in
groupshare(f, dest) ==
    [p \in DOMAIN f |->
        IF ~IsPrefix(dest, p) THEN f[p]
        ELSE IF f[p].kind = "dir"
        THEN (IF Mode2770 \subseteq f[p].mode THEN f[p]
              ELSE [f[p] EXCEPT !.mode = (f[p].mode \cup Mode2770) \cap Mode2777])
        ELSE (IF Mode660 \subseteq f[p].mode THEN f[p]
              ELSE [f[p] EXCEPT !.mode = (f[p].mode \cup Mode660) \cap Mode777])]

\* utils.ignore_patterns(exclude=coursedir.ignore, include, max_file_size):
\* the globs that are left out of the copy
utils_ignore_patterns(c) == IgnoreGlobs

\* Exchange.do_copy: the error of the copy is logged and False is returned
do_copy(f, c, src, dest) ==
    LET o == copytree(f, src, dest, utils_ignore_patterns(c))
    IN  IF o.raised THEN [fs |-> o.fs, returns |-> "False", written |-> o.written]
        ELSE [fs |-> IF c.groupshared THEN groupshare(o.fs, dest) ELSE o.fs,
              returns |-> "True", written |-> o.written]

InboundDest == self.inbound_path \o <<N(self.assignment_filename, "")>>
\* copy_files, lines 222-225
CacheDest ==
    self.cache_path \o
        <<N(IF cfg.add_random_string THEN Front(self.assignment_filename)
            ELSE self.assignment_filename, "")>>

\* copy_files, line 232; the return value of do_copy is dropped
SubmitCopyInbound ==
    /\ op = "submit"
    /\ pc = "copy_inbound"
    /\ LET r == do_copy(fs, cfg, self.src_path, InboundDest)
       IN  /\ fs' = r.fs
           /\ written' = written \cup r.written
           /\ self' = [self EXCEPT !.copied = Append(self.copied, r.returns)]
           /\ log' = IF r.returns = "True" THEN log ELSE log \cup {"error: Error copying"}
           /\ pc' = "timestamp_inbound"
           /\ UNCHANGED <<err, failedAt>>
    /\ touched' = touched \cup {self.src_path, InboundDest}
    /\ UNCHANGED <<op, cfg, steps, fs0, last, denied, other>>

TimestampTxt == N(<<"timestamp">>, "txt")

\* mutant: the clock is read again for the file
write_timestamp_reread(f, dir, timestamp) ==
    LET p == dir \o <<TimestampTxt>>
    IN  IF ~isdir(f, dir) \/ isdir(f, p) \/ (isfile(f, p) /\ "w" \notin f[p].acc)
        THEN Outcome(f, TRUE, {})
        ELSE Outcome(Put(f, p, FileNode(<<Plain("later")>>)), FALSE, {p})

\* open(os.path.join(dir, "timestamp.txt"), "w") and write
write_timestamp(f, dir, timestamp) ==
    LET p == dir \o <<TimestampTxt>>
    IN  IF ~isdir(f, dir) \/ isdir(f, p) \/ (isfile(f, p) /\ "w" \notin f[p].acc)
        THEN Outcome(f, TRUE, {})
        ELSE Outcome(Put(f, p, FileNode(<<Plain(timestamp)>>)), FALSE, {p})

SubmitTimestampInbound ==
    /\ op = "submit"
    /\ pc = "timestamp_inbound"
    /\ LET o == write_timestamp(fs, InboundDest, self.timestamp)
       IN  /\ fs' = o.fs
           /\ written' = written \cup o.written
           /\ IF o.raised
              THEN Raise("OSError: timestamp.txt", "timestamp_inbound")
              ELSE pc' = "set_perms" /\ UNCHANGED <<err, failedAt>>
    /\ touched' = touched \cup {InboundDest \o <<TimestampTxt>>}
    /\ UNCHANGED <<op, cfg, self, steps, fs0, log, last, denied, other>>

\* os.walk(top), top-down: the directories in the order they are visited
RECURSIVE walk_dirs(_, _)
RECURSIVE walk_subdirs(_, _, _)
walk_subdirs(f, dir, names) ==
    IF names = <<>> THEN <<>>
    ELSE (IF isdir(f, dir \o <<Head(names)>>) THEN walk_dirs(f, dir \o <<Head(names)>>)
          ELSE <<>>) \o walk_subdirs(f, dir, Tail(names))

walk_dirs(f, top) ==
    IF ~isdir(f, top) THEN <<>>
    ELSE <<top>> \o walk_subdirs(f, top, sorted(listdir(f, top)))

\* the files of the directories of a walk, in the order they are visited
RECURSIVE walk_files(_, _)
walk_files(f, dirs) ==
    IF dirs = <<>> THEN <<>>
    ELSE LET here == SelectSeq(sorted(listdir(f, Head(dirs))),
                               LAMBDA n : ~isdir(f, Head(dirs) \o <<n>>))
         IN  [i \in 1..Len(here) |-> Head(dirs) \o <<here[i]>>] \o walk_files(f, Tail(dirs))

\* os.chmod on the paths in turn; the first refusal raises and ends the calls
RECURSIVE chmod_each(_, _, _, _, _)
chmod_each(f, paths, fileperms, dirperms, refused) ==
    IF paths = <<>> THEN Outcome(f, FALSE, {})
    ELSE IF Head(paths) \in refused THEN Outcome(f, TRUE, {})
    ELSE chmod_each([f EXCEPT ![Head(paths)].mode =
                        IF f[Head(paths)].kind = "dir" THEN dirperms ELSE fileperms],
                    Tail(paths), fileperms, dirperms, refused)

\* mutant: only the files of the walk are given their mode
set_perms_files_only(f, dest, fileperms, dirperms, refused) ==
    chmod_each(f, walk_files(f, walk_dirs(f, dest)), fileperms, dirperms, refused)

\* Exchange.set_perms: the files of the walk first, then the directories in
\* reverse order; nothing catches the error of a chmod.  refused: the paths
\* on which the system refuses the chmod
set_perms(f, dest, fileperms, dirperms, refused) ==
    LET all_dirs == walk_dirs(f, dest)
    IN  chmod_each(f, walk_files(f, all_dirs) \o Reverse(all_dirs), fileperms, dirperms,
                   refused)

\* copy_files, lines 235-244: set_perms, then the chmod of dest_path to 0777
SubmitSetPerms ==
    /\ op = "submit"
    /\ pc = "set_perms"
    /\ \E refused \in {{}} \cup {{p} : p \in {q \in DOMAIN fs : IsPrefix(InboundDest, q)}} :
         LET o == set_perms(fs, InboundDest, Mode644, Mode755, refused)
         IN  /\ denied' = refused
             /\ IF o.raised \/ InboundDest \in refused
                THEN /\ fs' = o.fs
                     /\ Raise("PermissionError: chmod", "set_perms")
                ELSE /\ fs' = [o.fs EXCEPT ![InboundDest].mode = Mode777]
                     /\ pc' = "copy_cache"
                     /\ UNCHANGED <<err, failedAt>>
    /\ touched' = touched \cup {InboundDest}
    /\ UNCHANGED <<op, cfg, self, steps, fs0, written, log, last, other>>

\* copy_files, lines 247-249
SubmitCopyCache ==
    /\ op = "submit"
    /\ pc = "copy_cache"
    /\ LET made == IF isdir(fs, self.cache_path) THEN Outcome(fs, FALSE, {})
                   ELSE makedirs(fs, self.cache_path)
           r == do_copy(made.fs, cfg, self.src_path, CacheDest)
       IN  IF made.raised
           THEN Raise("OSError: makedirs", "copy_cache") /\ UNCHANGED <<fs, written, self, log>>
           ELSE /\ fs' = r.fs
                /\ written' = written \cup made.written \cup r.written
                /\ self' = [self EXCEPT !.copied = Append(self.copied, r.returns)]
                /\ log' = IF r.returns = "True" THEN log ELSE log \cup {"error: Error copying"}
                /\ pc' = "timestamp_cache"
                /\ UNCHANGED <<err, failedAt>>
    /\ touched' = touched \cup {self.cache_path, self.src_path, CacheDest}
    /\ UNCHANGED <<op, cfg, steps, fs0, last, denied, other>>

\* copy_files, lines 250-255
SubmitTimestampCache ==
    /\ op = "submit"
    /\ pc = "timestamp_cache"
    /\ LET o == write_timestamp(fs, CacheDest, self.timestamp)
       IN  /\ fs' = o.fs
           /\ written' = written \cup o.written
           /\ IF o.raised
              THEN Raise("OSError: timestamp.txt", "timestamp_cache") /\ UNCHANGED log
              ELSE /\ pc' = "done"
                   /\ log' = log \cup {"info: Submitted as"}
                   /\ UNCHANGED <<err, failedAt>>
    /\ touched' = touched \cup {CacheDest \o <<TimestampTxt>>}
    /\ UNCHANGED <<op, cfg, self, steps, fs0, last, denied, other>>

(***************************************************************************)
(* The inputs of a submit run: the student's directory, the release, the   *)
(* inbound directory, the cache and the configuration.                     *)
(***************************************************************************)
DocStamped ==
    Append(DocStudent,
           [cell_type |-> "markdown",
            metadata |-> [name |-> "timestamp_cell", deletable |-> FALSE, editable |-> FALSE],
            source |-> Source("Timestamp", Str("t0"))])

\* a tree made of the given files, as relative paths
Flat(files) == [p \in {<<>>} \cup {<<n>> : n \in DOMAIN files} |->
                   IF p = <<>> THEN DirNode ELSE files[p[1]]]

Unreadable(node) == [node EXCEPT !.acc = {}]

\* the receipt that the submit which stamped DocStamped left in the
\* student's directory
InfoTxt(username) == N(<<username, "_info">>, "txt")
EarlierReceipt == FileNode(receipt("u1", compute_hashcode(DocStamped), "t0"))

\* entries the student keeps private: a file of mode 0600, a directory of
\* mode 0700
PrivateFile(d) == [FileNode(d) EXCEPT !.mode = {"S_IRUSR", "S_IWUSR"}]
PrivateDir == [DirNode EXCEPT !.mode = S_IRWXU]

\* the student's directories: the assignment's notebook in two states or
\* absent, a second notebook, a data file that may be unreadable or comes
\* with a nested directory (both private), a top directory that may not be
\* listed, the receipt of an earlier submit (it
\* is there when the notebook bears the earlier stamp, and may be there when
\* the notebook is gone)
SubmitSrcTrees ==
    {[Flat([n \in ({NB1 : x \in main} \cup nb2 \cup {DATA : x \in data}
                   \cup {UDIR : x \in data \cap {"readable"}}
                   \cup {InfoTxt("u1") : x \in
                            {l \in left : main = {DocStamped} \/
                                           (main = {} /\ l = "receipt")}}) |->
              IF n = NB1 THEN FileNode(CHOOSE x \in main : TRUE)
              ELSE IF n = NB2 THEN FileNode(DocStudent)
              ELSE IF n = InfoTxt("u1") THEN EarlierReceipt
              ELSE IF n = UDIR THEN PrivateDir
              ELSE IF data = {"unreadable"} THEN Unreadable(FileNode(<<>>))
              ELSE PrivateFile(<<>>)]) EXCEPT ![<<>>].acc = srcAcc] :
        srcAcc \in {{"r", "w", "x"}, {"w", "x"}},
        main \in {{}, {DocStudent}, {DocStamped}},
        nb2 \in SUBSET {NB2},
        data \in {{}, {"readable"}, {"unreadable"}},
        left \in {{"receipt"}, {"gone"}}}

SubmitReleaseTrees ==
    {Flat([n \in S |-> FileNode(DocReleased)]) : S \in SUBSET {NB1, NB2}}

\* an earlier submission of the same user at the clock reading t1
EarlierSubmission ==
    Flat([n \in {NB1, TimestampTxt} |->
             IF n = NB1 THEN FileNode(DocStudent) ELSE FileNode(<<Plain("t1")>>)])
EarlierName == N(<<"u1", Assignment, "t1">>, "")

InboundDir == ROOT \o <<D(Course), D("inbound")>>

\* root: the exchange root is "writable", "readonly" or "absent"
SubmitFs(c, root, src, release, relAcc, inbound, inAcc, cache) ==
    LET base == Dirs({ROOT, ROOT \o <<D(Course)>>, ROOT \o <<D(Course), D("outbound")>>,
                      c.cwd, CACHE})
        rel == Graft(ReleaseDir, release)
        relA == [p \in DOMAIN rel |-> IF p = ReleaseDir THEN [rel[p] EXCEPT !.acc = relAcc]
                                      ELSE rel[p]]
        srcp == submit_src_path(c)
        loc == IF src = NoTree THEN NoTree
               ELSE Overlay(Dirs(Ancestors(srcp)), Graft(srcp, src))
        inb == IF inbound = "absent" THEN NoTree
               ELSE Overlay([p \in {InboundDir} |-> [DirNode EXCEPT !.acc = inAcc]],
                            IF inbound = "earlier"
                            THEN Graft(InboundDir \o <<EarlierName>>, EarlierSubmission)
                            ELSE NoTree)
        cch == IF cache = "absent" THEN NoTree
               ELSE Overlay(Dirs({CACHE \o <<D(Course)>>}),
                            Graft(CACHE \o <<D(Course), EarlierName>>, EarlierSubmission))
        all == Overlay(Overlay(Overlay(Overlay(base, relA), loc), inb), cch)
    IN  IF root = "absent" THEN [p \in {q \in DOMAIN all : ~IsPrefix(ROOT, q)} |-> all[p]]
        ELSE IF root = "readonly" THEN [all EXCEPT ![ROOT].acc = {"r", "x"}]
        ELSE all

SubmitCfgs ==
    {[DefaultCfg EXCEPT !.course_id = ci, !.groupshared = gs, !.path_includes_course = pic,
                        !.strict = st, !.add_random_string = ars] :
        ci \in {"", Course}, gs \in BOOLEAN, pic \in BOOLEAN, st \in BOOLEAN,
        ars \in BOOLEAN}

OneSrc == Flat([n \in {NB1} |-> FileNode(DocStudent)])
OneSubmitRelease == Flat([n \in {NB1} |-> FileNode(DocReleased)])

InitSubmit ==
    /\ op = "submit"
    /\ \/ \E c \in SubmitCfgs, root \in {"writable", "readonly", "absent"},
             src \in {NoTree, OneSrc}, release \in {NoTree, OneSubmitRelease},
             relAcc \in {{"r", "w", "x"}, {"x"}}, inbound \in {"absent", "empty"},
             inAcc \in {{"r", "w", "x"}, {"r", "x"}} :
             /\ cfg = c
             /\ fs = SubmitFs(c, root, src, release, relAcc, inbound, inAcc, "absent")
       \/ \E c \in {k \in SubmitCfgs : k.course_id = Course /\ ~k.path_includes_course},
             src \in SubmitSrcTrees, release \in SubmitReleaseTrees,
             inbound \in {"empty", "earlier"}, cache \in {"absent", "earlier"} :
             /\ cfg = c
             /\ fs = SubmitFs(c, "writable", src, release, {"r", "w", "x"}, inbound,
                              {"r", "w", "x"}, cache)
    /\ fs0 = fs
    /\ self = NoSelf
    /\ pc = "start"
    /\ err = "none"
    /\ failedAt = "none"
    /\ steps = <<>>
    /\ written = {}
    /\ log = {}
    /\ last = NoCall
    /\ touched = {}
    /\ denied = {}
    /\ other = NoOther

NextSubmit ==
    \/ Start
    \/ SubmitInitSrc
    \/ SubmitInitDest
    \/ SubmitPrepare
    \/ SubmitCheckDiff
    \/ SubmitCopyInbound
    \/ SubmitTimestampInbound
    \/ SubmitSetPerms
    \/ SubmitCopyCache
    \/ SubmitTimestampCache

SpecSubmit == InitSubmit /\ [][NextSubmit]_vars

(***************************************************************************)
(* Both operations under Exchange.start.                                   *)
(***************************************************************************)
Init == InitFetch \/ InitSubmit

Next ==
    \/ Start
    \/ FetchInitSrc
    \/ FetchInitDest
    \/ FetchCopyFiles
    \/ FetchScramble
    \/ SubmitInitSrc
    \/ SubmitInitDest
    \/ SubmitPrepare
    \/ SubmitCheckDiff
    \/ SubmitCopyInbound
    \/ SubmitTimestampInbound
    \/ SubmitSetPerms
    \/ SubmitCopyCache
    \/ SubmitTimestampCache

Spec == Init /\ [][Next]_vars

Hooks == <<"init_src", "init_dest", "copy_files">>

\* the hooks that have been entered when the run fails in the given place
StepsBefore(at) ==
    CASE at = "start" -> <<>>
      [] at = "init_src" -> SubSeq(Hooks, 1, 1)
      [] at = "init_dest" -> SubSeq(Hooks, 1, 2)
      [] OTHER -> Hooks

\* the hooks that have been entered when the run is at the given place
StepsAt(at) ==
    CASE at \in {"start", "init_src"} -> <<>>
      [] at = "init_dest" -> SubSeq(Hooks, 1, 1)
      [] at = "copy_files" -> SubSeq(Hooks, 1, 2)
      [] OTHER -> Hooks

\* C1: a run of start() enters init_src, init_dest and copy_files in that
\* order and each at most once; an error raised in a step ends the run in
\* that step, with no later hook entered, and a run that has not failed has
\* entered exactly the hooks that lead to its position
C1_StartRunsHooksInOrder ==
    /\ \E k \in 0..Len(Hooks) : steps = SubSeq(Hooks, 1, k)
    /\ (err # "none") <=> (pc = "failed")
    /\ pc = "failed" => steps = StepsBefore(failedAt)
    /\ pc # "failed" => steps = StepsAt(pc)

C1_Witness ==
    /\ pc = "failed"
    /\ failedAt = "init_dest"
    /\ steps = <<"init_src", "init_dest">>

\* C2: a submit run that reaches its final state has copied the source tree
\* to the inbound directory and to the cache: both copies returned without
\* an error and every source entry that is not ignored is in the inbound
\* destination
C2_CompletedSubmitCopiedTree ==
    (op = "submit" /\ pc = "done") =>
        /\ self.copied = <<"True", "True">>
        /\ \A q \in RelUnder(fs, self.src_path) :
             (\A k \in 1..Len(q) : ~Ignored(q[k])) => exists(fs, InboundDest \o q)

Released == find_all_notebooks(fs, self.release_path)
Submitted == find_all_notebooks(fs, self.src_path)
DiffWarning == "warning: possible missing/extra notebooks"

\* the run has gone through check_filename_diff
DiffChecked ==
    /\ op = "submit"
    /\ \/ pc \in {"copy_inbound", "timestamp_inbound", "set_perms", "copy_cache",
                  "timestamp_cache", "done"}
       \/ pc = "failed" /\ failedAt \in {"check_filename_diff", "copy_inbound",
                                         "timestamp_inbound", "copy_cache", "timestamp_cache"}

FailedInDiff == pc = "failed" /\ failedAt = "check_filename_diff"

\* nothing under the inbound directory or the cache differs from the start
NothingSubmitted ==
    \A p \in DOMAIN fs :
        (IsPrefix(InboundDir, p) \/ IsPrefix(CACHE, p)) => (p \in DOMAIN fs0 /\ fs[p] = fs0[p])

\* C10 as stated: when the released and the submitted notebook sets differ,
\* a strict submit fails in the diff with nothing copied and a non-strict
\* submit warns and goes on; when they are equal there is no failure and no
\* warning
C10_StrictFailsOnAnyDifference ==
    DiffChecked =>
        IF Released # Submitted
        THEN IF cfg.strict
             THEN FailedInDiff /\ NothingSubmitted
             ELSE DiffWarning \in log /\ ~FailedInDiff
        ELSE DiffWarning \notin log /\ ~FailedInDiff

\* C10 amended: a strict submit fails in the diff, with nothing copied to the
\* inbound directory or the cache, exactly when a released notebook is
\* missing from the submission; every other difference, in either mode, is
\* a warning and the run goes on to the copy; equal sets give no failure and
\* no warning
C10_StrictFailsOnMissing ==
    DiffChecked =>
        IF Released \ Submitted # {} /\ cfg.strict
        THEN FailedInDiff /\ NothingSubmitted
        ELSE IF Released # Submitted
        THEN DiffWarning \in log /\ ~FailedInDiff
        ELSE DiffWarning \notin log /\ ~FailedInDiff

C10_Witness ==
    /\ DiffChecked
    /\ cfg.strict
    /\ Released \ Submitted # {}
    /\ Submitted \ Released # {}
    /\ FailedInDiff

\* C11: a fetch or submit run with an empty course id is rejected with the
\* course-id error in its first resolver (or has not got that far), and it
\* has probed, read or written no path of the filesystem
C11_EmptyCourseRejectedFirst ==
    (op \in {"fetch", "submit"} /\ cfg.course_id = "") =>
        /\ touched = {}
        /\ Len(steps) <= 1
        /\ pc = "failed" => (failedAt = "start" \/ err = "ExchangeError: no course id")

(***************************************************************************)
(* Two submit runs of different users on one exchange.  One run is on the  *)
(* processor and takes the steps of a submit; Switch parks it and resumes  *)
(* the other, so the steps of the two runs interleave in every order.      *)
(***************************************************************************)
Switch ==
    /\ op = "submit"
    /\ other # NoOther
    /\ other' = [cfg |-> cfg, self |-> self, pc |-> pc, err |-> err, failedAt |-> failedAt,
                 steps |-> steps, written |-> written, log |-> log, touched |-> touched,
                 denied |-> denied]
    /\ cfg' = other.cfg
    /\ self' = other.self
    /\ pc' = other.pc
    /\ err' = other.err
    /\ failedAt' = other.failedAt
    /\ steps' = other.steps
    /\ written' = other.written
    /\ log' = other.log
    /\ touched' = other.touched
    /\ denied' = other.denied
    /\ UNCHANGED <<op, fs, fs0, last>>

CWD2 == <<D("home2")>>             \* the working directory of the second user

UserCfg(username, cwd, ars) ==
    [DefaultCfg EXCEPT !.username = username, !.hub_user = username, !.cwd = cwd,
                       !.add_random_string = ars]

\* a directory with a data file and no notebook
DataSrc == Flat([n \in {DATA} |-> FileNode(<<>>)])

InitTwoSubmits ==
    /\ op = "submit"
    /\ \E ars \in BOOLEAN, src1 \in {OneSrc, DataSrc}, src2 \in {OneSrc, DataSrc} :
         LET c1 == UserCfg("u1", CWD, ars)
             c2 == UserCfg("u2", CWD2, ars)
             p2 == submit_src_path(c2)
         IN  /\ cfg = c1
             /\ other = [cfg |-> c2, self |-> NoSelf, pc |-> "start", err |-> "none",
                         failedAt |-> "none", steps |-> <<>>, written |-> {}, log |-> {},
                         touched |-> {}, denied |-> {}]
             /\ fs = Overlay(SubmitFs(c1, "writable", src1, OneSubmitRelease,
                                      {"r", "w", "x"}, "empty", {"r", "w", "x"}, "absent"),
                             Overlay(Dirs(Ancestors(p2)), Graft(p2, src2)))
    /\ fs0 = fs
    /\ self = NoSelf
    /\ pc = "start"
    /\ err = "none"
    /\ failedAt = "none"
    /\ steps = <<>>
    /\ written = {}
    /\ log = {}
    /\ last = NoCall
    /\ touched = {}
    /\ denied = {}

NextTwoSubmits ==
    \/ Start
    \/ SubmitInitSrc
    \/ SubmitInitDest
    \/ SubmitPrepare
    \/ SubmitCheckDiff
    \/ SubmitCopyInbound
    \/ SubmitTimestampInbound
    \/ SubmitSetPerms
    \/ SubmitCopyCache
    \/ SubmitTimestampCache
    \/ Switch

SpecTwoSubmits == InitTwoSubmits /\ [][NextTwoSubmits]_vars

\* the inbound directory of a run that has computed its submission name
DestOf(slf) == slf.inbound_path \o <<N(slf.assignment_filename, "")>>

\* the modes that the run at position at has given its own inbound
\* directory, when no one else has changed them
OwnModes(f, slf, at) ==
    \/ ~exists(f, DestOf(slf))
    \/ at \in {"timestamp_inbound", "set_perms"} /\ f[DestOf(slf)].mode = Mode755
    \/ at = "failed"
    \/ /\ at \in {"copy_cache", "timestamp_cache", "done"}
       /\ f[DestOf(slf)].mode = Mode777
       /\ \A p \in DOMAIN f :
            (IsPrefix(DestOf(slf), p) /\ p # DestOf(slf)) => f[p].mode = Mode644

\* C12: two submit runs of different users, interleaved in any order, with
\* equal or different timestamps and with or without the random suffix:
\* the two inbound names differ, each run writes in the inbound area only
\* beneath its own name, no copy of either run fails, and the modes of each
\* run's inbound directory are the ones that run itself has set
C12_ConcurrentSubmitsApart ==
    (op = "submit" /\ other # NoOther /\ cfg.username # other.cfg.username) =>
        /\ (self.assignment_filename # <<>> /\ other.self.assignment_filename # <<>>) =>
              DestOf(self) # DestOf(other.self)
        /\ \A p \in written : IsPrefix(InboundDir, p) => IsPrefix(DestOf(self), p)
        /\ \A p \in other.written :
              IsPrefix(InboundDir, p) => IsPrefix(DestOf(other.self), p)
        /\ \A i \in 1..Len(self.copied) : self.copied[i] = "True"
        /\ \A i \in 1..Len(other.self.copied) : other.self.copied[i] = "True"
        /\ self.assignment_filename # <<>> => OwnModes(fs, self, pc)
        /\ other.self.assignment_filename # <<>> =>
              OwnModes(fs, other.self, other.pc)

\* C12 witness: both runs are complete, they bear the same timestamp and no
\* random suffix, and each inbound directory holds its own timestamp.txt
C12_Witness ==
    /\ op = "submit"
    /\ other # NoOther
    /\ pc = "done"
    /\ other.pc = "done"
    /\ ~cfg.add_random_string
    /\ self.timestamp = other.self.timestamp
    /\ isfile(fs, DestOf(self) \o <<TimestampTxt>>)
    /\ isfile(fs, DestOf(other.self) \o <<TimestampTxt>>)
    /\ DestOf(self) # DestOf(other.self)

\* every file at or below dest has the group read and write bits, every
\* directory the group read, write, execute and setgid bits
GroupBitsSet(f, dest) ==
    \A p \in DOMAIN f :
        IsPrefix(dest, p) =>
            IF f[p].kind = "dir" THEN Mode2770 \subseteq f[p].mode
            ELSE Mode660 \subseteq f[p].mode

\* C13: with group-sharing enabled, right after a copy of a fresh tree (the
\* copy of a fetch into a destination that did not exist, the inbound copy
\* and the cache copy of a submit that returned without an error) every
\* file and directory of the destination has the group bits set
C13_GroupSharedCopyNormalized ==
    cfg.groupshared =>
        /\ (op = "fetch" /\ pc = "scrambling" /\ ~exists(fs0, self.dest_path)) =>
              GroupBitsSet(fs, self.dest_path)
        /\ (op = "submit" /\ pc = "timestamp_inbound" /\ self.copied = <<"True">>) =>
              GroupBitsSet(fs, InboundDest)
        /\ (op = "submit" /\ pc = "timestamp_cache" /\ self.copied[2] = "True") =>
              GroupBitsSet(fs, CacheDest)

\* C14: when the system refuses the chmod of one entry during set_perms,
\* the walk is not aborted: the run does not fail in set_perms and every
\* other file and directory beneath the inbound directory has its target
\* mode (0644 for files, 0755 for directories)
C14_SetPermsBestEffort ==
    (op = "submit" /\ denied # {}) =>
        /\ ~(pc = "failed" /\ failedAt = "set_perms")
        /\ \A p \in DOMAIN fs :
             (IsPrefix(InboundDest, p) /\ p # InboundDest /\ p \notin denied) =>
                 fs[p].mode = IF fs[p].kind = "dir" THEN Mode755 ELSE Mode644

\* what a submit run holds as its timestamp, position by position
TimestampHeld ==
    /\ (pc = "start" \/ failedAt = "start") => self.timestamp = ""
    /\ (pc # "start" /\ failedAt # "start") => self.timestamp \in ClockReadings
    /\ self.assignment_filename # <<>> => self.assignment_filename[3] = self.timestamp
    /\ pc = "done" =>
         /\ isfile(fs, InboundDest \o <<TimestampTxt>>)
         /\ fs[InboundDest \o <<TimestampTxt>>].data = <<Plain(self.timestamp)>>
         /\ isfile(fs, CacheDest \o <<TimestampTxt>>)
         /\ fs[CacheDest \o <<TimestampTxt>>].data = <<Plain(self.timestamp)>>

\* C15: in a submit run the timestamp is set once, by the step before
\* init_src, and no later step changes it; it is the third field of the
\* submission name, and when the run is complete the timestamp.txt of the
\* inbound copy and the timestamp.txt of the cache copy both hold it
C15_TimestampSetOnce ==
    /\ [](op = "submit" => TimestampHeld)
    /\ [][(op = "submit" /\ pc # "start") => self'.timestamp = self.timestamp]_vars

C15_Witness ==
    /\ op = "submit"
    /\ pc = "done"
    /\ cfg.add_random_string
    /\ self.timestamp = "t2"
    /\ fs[InboundDest \o <<TimestampTxt>>].data = <<Plain("t2")>>
    /\ fs[CacheDest \o <<TimestampTxt>>].data = <<Plain("t2")>>

\* C16: when a submit run is complete, the cache directory of the submission
\* bears the name of the inbound directory, the random suffix included
C16_CacheNameIsInboundName ==
    (op = "submit" /\ pc = "done") =>
        CacheDest[Len(CacheDest)] = InboundDest[Len(InboundDest)]

\* the directory holds a receipt of this run: the user's name and the run's
\* timestamp are on its lines
HoldsOwnReceipt(dir) ==
    LET info == dir \o <<InfoTxt(cfg.username)>>
    IN  /\ isfile(fs, info)
        /\ Len(fs[info].data) = 3
        /\ fs[info].data[1] = Source("Username", Str(cfg.username))
        /\ fs[info].data[2].msg = "Hashcode"
        /\ fs[info].data[3] = Source("Timestamp", Str(self.timestamp))

\* C17: when a submit run is complete, the inbound copy and the cache copy
\* each hold a receipt file written by this run: its Timestamp line is the
\* run's timestamp, which is also what timestamp.txt holds
C17_ReceiptOfThisRun ==
    (op = "submit" /\ pc = "done") =>
        /\ HoldsOwnReceipt(InboundDest)
        /\ HoldsOwnReceipt(CacheDest)
        /\ fs[InboundDest \o <<TimestampTxt>>].data = <<Plain(self.timestamp)>>

RootWritable(f) == isdir(f, ROOT) /\ "w" \in f[ROOT].acc

\* C18: without group-sharing, a run whose exchange root is missing or not
\* writable fails in start(): no timestamp is set and no resolver or
\* transfer step is entered
C18_RootWritableOrNoTransfer ==
    (op \in {"fetch", "submit"} /\ ~cfg.groupshared /\ ~RootWritable(fs0)) =>
        /\ steps = <<>>
        /\ self.timestamp = ""
        /\ pc \in {"start", "failed"}
        /\ pc = "failed" => failedAt = "start"

InboundNotebook == InboundDest \o <<N(<<cfg.assignment_id>>, "ipynb")>>
SubmittedWithNotebook ==
    /\ op = "submit"
    /\ pc = "done"
    /\ isfile(fs0, submit_src_path(cfg) \o <<N(<<cfg.assignment_id>>, "ipynb")>>)
    /\ isfile(fs, InboundNotebook)
    /\ InboundNotebook \in written

\* C19: after a successful submit of an assignment with a main notebook,
\* the notebook in the inbound directory carries exactly one timestamp
\* cell and exactly one hashcode cell
C19_InboundNotebookBothStamps ==
    SubmittedWithNotebook =>
        /\ CountTag(fs[InboundNotebook].data, "timestamp_cell") = 1
        /\ CountTag(fs[InboundNotebook].data, "hashcode_cell") = 1

\* the files the earlier submission left: its inbound copy, its cache copy
\* and the receipt in the student's directory
EarlierFiles ==
    {p \in DOMAIN fs0 :
        /\ fs0[p].kind = "file"
        /\ \/ IsPrefix(InboundDir \o <<EarlierName>>, p)
           \/ IsPrefix(CACHE \o <<D(Course), EarlierName>>, p)
           \/ p = submit_src_path(cfg) \o <<InfoTxt(cfg.username)>>}

\* C20: a resubmission rewrites or modifies no file of an earlier
\* submission: its inbound copy, its cache copy and its receipt stay as
\* they were and are not written again
C20_EarlierSubmissionUntouched ==
    op = "submit" =>
        \A p \in EarlierFiles : /\ p \in DOMAIN fs
                                /\ fs[p] = fs0[p]
                                /\ p \notin written

\* the student's side of the run: the source directory and the .temp area
\* next to it both lie below the working directory
LocalUnchanged ==
    \A p \in DOMAIN fs \cup DOMAIN fs0 :
        IsPrefix(cfg.cwd, p) => /\ p \in DOMAIN fs
                                /\ p \in DOMAIN fs0
                                /\ fs[p] = fs0[p]

\* C21: a submit that the check of the file names rejects leaves the
\* student's source directory (notebook, receipt, HTML view) and the .temp
\* area exactly as they were before the run
C21_DiffRejectionLeavesSourceIntact ==
    (op = "submit" /\ pc = "failed" /\ failedAt = "check_filename_diff") => LocalUnchanged

BelowInbound == {p \in DOMAIN fs : IsPrefix(InboundDest, p) /\ p # InboundDest}

\* C22: after a successful submit the inbound submission directory has
\* mode 0777, every file beneath it mode 0644 and every nested directory
\* mode 0755, whatever the modes in the source and with or without
\* group-sharing; the chmod to 0777 is the last change of a mode at or
\* beneath the inbound submission directory
C22_InboundModes ==
    /\ [](op = "submit" /\ pc = "done" =>
            /\ isdir(fs, InboundDest)
            /\ fs[InboundDest].mode = Mode777
            /\ \A p \in BelowInbound :
                 fs[p].mode = IF fs[p].kind = "dir" THEN Mode755 ELSE Mode644)
    /\ [][(op = "submit" /\ pc \in {"copy_cache", "timestamp_cache"}) =>
            \A p \in BelowInbound \cup {InboundDest} :
                p \in DOMAIN fs' /\ fs'[p].mode = fs[p].mode]_vars

\* C22 as stated: the modes as above, and after the chmod to 0777 the run
\* changes no mode any more, so the copy to the cache leaves every entry
\* with the mode the copy itself gave it
C22_RelaxIsLastChmod ==
    /\ [](op = "submit" /\ pc = "done" =>
            /\ isdir(fs, InboundDest)
            /\ fs[InboundDest].mode = Mode777
            /\ \A p \in BelowInbound :
                 fs[p].mode = IF fs[p].kind = "dir" THEN Mode755 ELSE Mode644)
    /\ [][(op = "submit" /\ pc = "copy_cache" /\ pc' = "timestamp_cache") =>
            LET made == IF isdir(fs, self.cache_path) THEN fs
                        ELSE makedirs(fs, self.cache_path).fs
                plain == copytree(made, self.src_path, CacheDest, utils_ignore_patterns(cfg))
            IN  \A p \in DOMAIN plain.fs :
                    IsPrefix(CacheDest, p) => fs'[p].mode = plain.fs[p].mode]_vars

\* a completed group-shared submit of a directory with a private file and a
\* private nested directory, both delivered
C22_Witness ==
    /\ op = "submit"
    /\ pc = "done"
    /\ cfg.groupshared
    /\ \E p \in BelowInbound : fs[p].kind = "dir"
    /\ \E p \in BelowInbound : fs[p].kind = "file" /\ p \in written
    /\ \E q \in DOMAIN fs0 : IsPrefix(submit_src_path(cfg), q) /\ fs0[q].mode = S_IRWXU
    /\ \E q \in DOMAIN fs0 : IsPrefix(submit_src_path(cfg), q)
                               /\ fs0[q].mode = {"S_IRUSR", "S_IWUSR"}

SrcNotebook == self.src_path \o <<N(<<cfg.assignment_id>>, "ipynb")>>
HashLine(f, dir) == f[dir \o <<InfoTxt(cfg.username)>>].data[2]
ChecksumLine(f, nbfile) == Source("Hashcode", compute_hashcode(f[nbfile].data))

\* C23: the hash on the receipt is the checksum of the notebook as the
\* inbound copy stores it: once the stamping is done the receipt in the
\* source directory bears the checksum of the source notebook with its
\* timestamp cell, the steps up to the copy leave that notebook as it is,
\* and in a completed submit the receipt and the notebook of the inbound
\* copy agree
C23_ReceiptHashOfStoredNotebook ==
    /\ [](op = "submit" /\ pc \in {"check_filename_diff", "copy_inbound"}
            /\ isfile(fs, SrcNotebook) =>
              /\ CountTag(fs[SrcNotebook].data, "timestamp_cell") = 1
              /\ CountTag(fs[SrcNotebook].data, "hashcode_cell") = 0
              /\ isfile(fs, self.src_path \o <<InfoTxt(cfg.username)>>)
              /\ HashLine(fs, self.src_path) = ChecksumLine(fs, SrcNotebook))
    /\ [][(op = "submit" /\ pc \in {"check_filename_diff", "copy_inbound"}
            /\ isfile(fs, SrcNotebook)) => fs'[SrcNotebook] = fs[SrcNotebook]]_vars
    /\ [](op = "submit" /\ pc = "done" /\ isfile(fs, InboundNotebook)
            /\ isfile(fs, InboundDest \o <<InfoTxt(cfg.username)>>) =>
              HashLine(fs, InboundDest) = ChecksumLine(fs, InboundNotebook))

\* a completed submit that delivered its notebook and its receipt, the
\* receipt bearing the checksum of a notebook with a timestamp cell
C23_Witness ==
    /\ op = "submit"
    /\ pc = "done"
    /\ {InboundNotebook, InboundDest \o <<InfoTxt(cfg.username)>>} \subseteq written
    /\ HashLine(fs, InboundDest) = ChecksumLine(fs, InboundNotebook)
    /\ CountTag(fs[InboundNotebook].data, "timestamp_cell") = 1
    /\ fs[InboundNotebook].data # fs0[submit_src_path(cfg) \o <<NB1>>].data

FetchSrc == ROOT \o <<D(cfg.course_id), D("outbound"), D(cfg.assignment_id)>>
FetchChecksPass ==
    /\ cfg.course_id # ""
    /\ isdir(fs0, FetchSrc)
    /\ check_mode(fs0, FetchSrc, {"r", "x"})
FailedInInitSrc == op = "fetch" /\ pc = "failed" /\ failedAt = "init_src"

\* C24: a fetch changes the filesystem only when the course id is not
\* empty, access to the course was granted, the release directory exists
\* and is readable and traversable.  The checks are made in that order:
\* the first one that fails ends the run in init_src with its own error,
\* the release directory is not looked at before the first two have
\* passed, and the filesystem is as it was
C24_FetchGuardedByInitSrc ==
    /\ (op = "fetch" /\ (fs # fs0 \/ written # {})) => FetchChecksPass
    /\ (op = "fetch" /\ ~FetchChecksPass) =>
           /\ pc \in {"start", "init_src", "failed"}
           /\ pc = "failed" => failedAt \in {"start", "init_src"}
    /\ FailedInInitSrc =>
           /\ fs = fs0
           /\ written = {}
           /\ steps = <<"init_src">>
           /\ err = "ExchangeError: no course id" <=> cfg.course_id = ""
           /\ err \in {"ExchangeError: no course id", "ExchangeError: no access to this course",
                       "ExchangeError: assignment not found",
                       "ExchangeError: no read permissions"}
           /\ err \in {"ExchangeError: no course id",
                       "ExchangeError: no access to this course"} => FetchSrc \notin touched
           /\ err = "ExchangeError: assignment not found" => ~isdir(fs0, FetchSrc)
           /\ err = "ExchangeError: no read permissions" =>
                  isdir(fs0, FetchSrc) /\ ~check_mode(fs0, FetchSrc, {"r", "x"})

\* a fetch that was refused for the mode of a release directory that is
\* there, with a course id and with access granted
C24_Witness ==
    /\ FailedInInitSrc
    /\ err = "ExchangeError: no read permissions"
    /\ cfg.course_id # ""
    /\ isdir(fs0, FetchSrc)
    /\ FetchSrc \in touched

====
